---- MODULE Spec2Model ----
(***************************************************************************)
(* State tracking of a passel of possums (package utils, utility.go).      *)
(*                                                                         *)
(* The backing store is the table `state (possum, state)`, modelled as the *)
(* sequence of its rows in insertion order; the table has no key and no    *)
(* uniqueness constraint.  Every store query may fail (fault = TRUE).      *)
(* SetupStateDB is modelled query by query (one step per Exec / QueryRow)  *)
(* so that runs can be cut off and interleaved, and so is GetPasselState   *)
(* (one step per QueryRow of its loop); GetState and WriteState issue a    *)
(* single query.                                                           *)
(***************************************************************************)
EXTENDS Integers, Sequences, FiniteSets, TLC

VARIABLES table, run, scan, last, lastSetup

vars == <<table, run, scan, last, lastSetup>>

----------------------------------------------------------------------------
(* Bounds and input domains *)

MaxPasselLen == 2

Names == {"north", "south"}

StateArgs == {"alive", "dead", "unknown"}

\* the caller whose calls are made one at a time and recorded
Main == "main"

\* the processes that run SetupStateDB concurrently
Runners == {"r1", "r2"}

Callers == {Main} \cup Runners

----------------------------------------------------------------------------
(* Error values.  Go errors are modelled by their kind. *)

NoErr == "nil"

NoRows == "sql: no rows in result set"

StoreError == "StoreError"

SchemaError == "SchemaError"

NotFound == "NotFound"

InvalidArgument == "InvalidArgument"

TypeMismatch == "TypeMismatch"

EnvironmentUnavailable == "EnvironmentUnavailable"

ServiceNotFound == "ServiceNotFound"

Panic == "panic"

Crashed == "crashed"

----------------------------------------------------------------------------
(* The environment: VCAP_SERVICES as seen through cfenv *)

StrElem(n) == [type |-> "string", val |-> n]

NumElem == [type |-> "number", val |-> "42"]

Elems == {StrElem(n) : n \in Names} \cup {NumElem}

SeqsUpTo(S, n) == UNION {[1..k -> S] : k \in 0..n}

NilValue == [type |-> "nil", elems |-> <<>>]

StringValue == [type |-> "string", elems |-> <<>>]

SliceValue(e) == [type |-> "slice", elems |-> e]

Payloads == {NilValue, StringValue} \cup {SliceValue(e) : e \in SeqsUpTo(Elems, MaxPasselLen)}

Envs ==
  {[up |-> FALSE, service |-> FALSE, passel |-> NilValue],
   [up |-> TRUE, service |-> FALSE, passel |-> NilValue]}
  \cup {[up |-> TRUE, service |-> TRUE, passel |-> p] : p \in Payloads}

Passels == SeqsUpTo(Names, MaxPasselLen)

----------------------------------------------------------------------------
(* The store *)

Row(p, s) == [possum |-> p, state |-> s]

Matching(t, p) == SelectSeq(t, LAMBDA r : r.possum = p)

Count(t, p) == Len(Matching(t, p))

\* db.QueryRow("SELECT * FROM state WHERE possum=?", p) followed by row.Scan
\* (possum names are compared exactly; of several matching rows the first in
\* insertion order is scanned)
QueryRow(t, p, fault) ==
  IF fault THEN [err |-> StoreError, state |-> ""]
  ELSE IF Matching(t, p) = <<>> THEN [err |-> NoRows, state |-> ""]
  ELSE [err |-> NoErr, state |-> Head(Matching(t, p)).state]

\* mutant: new rows default to "dead"
MutDefaultState == "dead"

DefaultState == "alive"

\* mutant: the insert is lost
MutInsertRow(t, p, s) == t

\* db.Exec("INSERT INTO state VALUES (?, ?)", p, s)
InsertRow(t, p, s) == Append(t, Row(p, s))

\* mutant: UPDATE without its WHERE clause
MutUpdateAllRows(t, s, p) == [k \in 1..Len(t) |-> Row(t[k].possum, s)]

\* mutant: UPDATE that stores the default state instead of the desired one
MutUpdateDefault(t, s, p) ==
  [k \in 1..Len(t) |-> IF t[k].possum = p THEN Row(t[k].possum, "alive") ELSE t[k]]

\* db.Exec("UPDATE state SET state=? WHERE possum=?", s, p)
UpdateRows(t, s, p) ==
  [k \in 1..Len(t) |-> IF t[k].possum = p THEN Row(t[k].possum, s) ELSE t[k]]

----------------------------------------------------------------------------
(* GetPassel *)

RECURSIVE PasselLoop(_, _, _)
PasselLoop(elems, k, possums) ==
  IF k > Len(elems) THEN [possums |-> possums, err |-> NoErr]
  ELSE IF elems[k].type # "string" THEN [possums |-> <<>>, err |-> TypeMismatch]
  ELSE PasselLoop(elems, k + 1, Append(possums, elems[k].val))

GetPassel(env) ==
  IF ~env.up THEN [possums |-> <<>>, err |-> EnvironmentUnavailable]
  ELSE IF ~env.service THEN [possums |-> <<>>, err |-> ServiceNotFound]
  ELSE IF env.passel.type # "slice" THEN [possums |-> <<>>, err |-> Panic]
  ELSE PasselLoop(env.passel.elems, 1, <<>>)

----------------------------------------------------------------------------
(* GetState, GetPasselState, WriteState *)

GetState(t, p, fault) ==
  LET q == QueryRow(t, p, fault) IN
  IF q.err # NoErr
  THEN IF q.err = NoRows THEN [value |-> "", err |-> NotFound]
       ELSE [value |-> "", err |-> q.err]
  ELSE [value |-> q.state, err |-> NoErr]

EmptyMap == [x \in {} |-> ""]

MapPut(m, p, s) == [x \in (DOMAIN m) \cup {p} |-> IF x = p THEN s ELSE m[x]]

\* mutant: a member without a record is skipped instead of failing the call
MutPasselStateStep(t, c, fault) ==
  LET q == QueryRow(t, c.passel[c.k], fault)
      acc == IF q.err = NoErr THEN MapPut(c.acc, c.passel[c.k], q.state) ELSE c.acc IN
  IF q.err # NoErr /\ q.err # NoRows
  THEN [ret |-> TRUE, hasMap |-> FALSE, map |-> EmptyMap, err |-> q.err, acc |-> c.acc]
  ELSE IF c.k = Len(c.passel)
  THEN [ret |-> TRUE, hasMap |-> TRUE, map |-> acc, err |-> NoErr, acc |-> acc]
  ELSE [ret |-> FALSE, hasMap |-> FALSE, map |-> EmptyMap, err |-> NoErr, acc |-> acc]

\* one iteration of the loop of GetPasselState: the lookup of the k-th possum
\* on the table as it is now; ret tells whether the function returns
PasselStateStep(t, c, fault) ==
  LET q == QueryRow(t, c.passel[c.k], fault) IN
  IF q.err # NoErr
  THEN IF q.err = NoRows
       THEN [ret |-> TRUE, hasMap |-> FALSE, map |-> EmptyMap, err |-> NotFound, acc |-> c.acc]
       ELSE [ret |-> TRUE, hasMap |-> FALSE, map |-> EmptyMap, err |-> q.err, acc |-> c.acc]
  ELSE LET acc == MapPut(c.acc, c.passel[c.k], q.state) IN
       IF c.k = Len(c.passel)
       THEN [ret |-> TRUE, hasMap |-> TRUE, map |-> acc, err |-> NoErr, acc |-> acc]
       ELSE [ret |-> FALSE, hasMap |-> FALSE, map |-> EmptyMap, err |-> NoErr, acc |-> acc]

\* mutant: no validation of the desired state
MutValidState(s) == TRUE

ValidState(s) == ~(s # "alive" /\ s # "dead")

WriteState(t, p, s, fault) ==
  IF ~ValidState(s) THEN [table |-> t, err |-> InvalidArgument]
  ELSE IF fault THEN [table |-> t, err |-> StoreError]
  ELSE [table |-> UpdateRows(t, s, p), err |-> NoErr]

----------------------------------------------------------------------------
(* Call records of the caller Main: `last` is its most recently returned   *)
(* call (blank while a run of Main is under way), `lastSetup` its most     *)
(* recently returned SetupStateDB run.  The concurrent runners share the   *)
(* store; their returns are not recorded.                                  *)

BlankOp ==
  [op |-> "none", possum |-> "", state |-> "", passel |-> <<>>, err |-> NoErr,
   value |-> "", hasMap |-> FALSE, map |-> EmptyMap, fault |-> FALSE,
   done |-> 0, fresh |-> FALSE, after |-> "none"]

IdleRun == [pc |-> "idle", passel |-> <<>>, i |-> 0, fresh |-> FALSE]

IdleScan == [pc |-> "idle", passel |-> <<>>, k |-> 0, acc |-> EmptyMap, after |-> "none"]

\* Main is in no call
MainIdle == run[Main].pc = "idle" /\ scan.pc = "idle"

\* how the most recently returned run ended, when it was over the same passel
After(passel) == IF lastSetup.passel = passel THEN lastSetup.outcome ELSE "none"

Outcome(known, err) ==
  IF err = NoErr THEN "ok"
  ELSE IF known /\ err \in {Crashed, StoreError} THEN "cut"
  ELSE "failed"

Init ==
  /\ table = <<>>
  /\ run = [r \in Callers |-> IdleRun]
  /\ scan = IdleScan
  /\ last = BlankOp
  /\ lastSetup = [passel |-> <<>>, outcome |-> "none"]

----------------------------------------------------------------------------
(* SetupStateDB, one step per store query *)

\* the run of runner r ends: return of an error or of nil, or a crash
SetupReturn(r, passel, known, err, done, fresh) ==
  /\ run' = [run EXCEPT ![r] = IdleRun]
  /\ IF r = Main
     THEN /\ last' = [BlankOp EXCEPT !.op = "SetupStateDB", !.passel = passel,
                                     !.err = err, !.done = done, !.fresh = fresh,
                                     !.after = IF known THEN After(passel) ELSE "none"]
          /\ lastSetup' = [passel |-> passel, outcome |-> Outcome(known, err)]
     ELSE UNCHANGED <<last, lastSetup>>

\* CREATE TABLE IF NOT EXISTS, then GetPassel
SetupBegin(r, env, fault) ==
  /\ run[r].pc = "idle"
  /\ r = Main => scan.pc = "idle"
  /\ UNCHANGED <<table, scan>>
  /\ IF fault
     THEN SetupReturn(r, <<>>, FALSE, SchemaError, 0, table = <<>>)
     ELSE LET g == GetPassel(env) IN
          IF g.err # NoErr
          THEN SetupReturn(r, <<>>, FALSE, g.err, 0, table = <<>>)
          ELSE IF Len(g.possums) = 0
          THEN SetupReturn(r, g.possums, TRUE, NoErr, 0, table = <<>>)
          ELSE /\ run' = [run EXCEPT ![r] =
                            [pc |-> "select", passel |-> g.possums, i |-> 1,
                             fresh |-> (table = <<>>)]]
               /\ last' = IF r = Main THEN BlankOp ELSE last
               /\ UNCHANGED lastSetup

\* the loop moves to the next possum, or the function returns nil
SetupAdvance(r) ==
  LET c == run[r] IN
  IF c.i = Len(c.passel)
  THEN SetupReturn(r, c.passel, TRUE, NoErr, c.i, c.fresh)
  ELSE /\ run' = [run EXCEPT ![r] = [c EXCEPT !.pc = "select", !.i = c.i + 1]]
       /\ UNCHANGED <<last, lastSetup>>

\* mutant: the insert does not depend on the lookup
MutNeedsInsert(q) == TRUE

\* the lookup found no row: the possum gets a row
NeedsInsert(q) == q.err # NoErr /\ q.err = NoRows

\* SELECT * FROM state WHERE possum=? for the i-th possum
SetupSelect(r, fault) ==
  LET c == run[r]
      q == QueryRow(table, c.passel[c.i], fault) IN
  /\ c.pc = "select"
  /\ UNCHANGED <<table, scan>>
  /\ IF NeedsInsert(q)
     THEN /\ run' = [run EXCEPT ![r] = [c EXCEPT !.pc = "insert"]]
          /\ UNCHANGED <<last, lastSetup>>
     ELSE IF q.err # NoErr
     THEN SetupReturn(r, c.passel, TRUE, q.err, c.i - 1, c.fresh)
     ELSE SetupAdvance(r)

\* INSERT INTO state VALUES (?, "alive") for the i-th possum
SetupInsert(r, fault) ==
  LET c == run[r] IN
  /\ c.pc = "insert"
  /\ UNCHANGED scan
  /\ IF fault
     THEN /\ UNCHANGED table
          /\ SetupReturn(r, c.passel, TRUE, StoreError, c.i - 1, c.fresh)
     ELSE /\ table' = InsertRow(table, c.passel[c.i], DefaultState)
          /\ SetupAdvance(r)

\* the process dies between two store queries
SetupCrash(r) ==
  LET c == run[r] IN
  /\ c.pc \in {"select", "insert"}
  /\ UNCHANGED <<table, scan>>
  /\ SetupReturn(r, c.passel, TRUE, Crashed, c.i - 1, c.fresh)

----------------------------------------------------------------------------
(* The other operations, called by Main while it is in no other call *)

CallGetPassel(env) ==
  LET g == GetPassel(env) IN
  /\ MainIdle
  /\ last' = [BlankOp EXCEPT !.op = "GetPassel", !.passel = g.possums, !.err = g.err]
  /\ UNCHANGED <<table, run, scan, lastSetup>>

CallGetState(p, fault) ==
  LET g == GetState(table, p, fault) IN
  /\ MainIdle
  /\ last' = [BlankOp EXCEPT !.op = "GetState", !.possum = p, !.err = g.err,
                             !.value = g.value, !.fault = fault]
  /\ UNCHANGED <<table, run, scan, lastSetup>>

\* whether the call Main makes next comes right after its successful run of
\* SetupStateDB over the same passel on an empty table
FollowsFreshSetup(passel) ==
  IF last.op = "SetupStateDB" /\ last.err = NoErr /\ last.fresh /\ last.passel = passel
  THEN "fresh" ELSE "none"

\* GetPasselState returns to Main
PasselStateReturn(passel, hasMap, map, err, fault, after) ==
  /\ scan' = IdleScan
  /\ last' = [BlankOp EXCEPT !.op = "GetPasselState", !.passel = passel, !.err = err,
                             !.hasMap = hasMap, !.map = map, !.fault = fault,
                             !.after = after]

\* GetPasselState is called: the length check, make(map[string]string)
PasselStateBegin(passel) ==
  /\ MainIdle
  /\ UNCHANGED <<table, run, lastSetup>>
  /\ IF Len(passel) = 0
     THEN PasselStateReturn(passel, FALSE, EmptyMap, InvalidArgument, FALSE,
                            FollowsFreshSetup(passel))
     ELSE /\ scan' = [pc |-> "query", passel |-> passel, k |-> 1, acc |-> EmptyMap,
                      after |-> FollowsFreshSetup(passel)]
          /\ last' = BlankOp

\* SELECT * FROM state WHERE possum=? for the k-th possum of the passel
PasselStateQuery(fault) ==
  LET g == PasselStateStep(table, scan, fault) IN
  /\ scan.pc = "query"
  /\ UNCHANGED <<table, run, lastSetup>>
  /\ IF g.ret
     THEN PasselStateReturn(scan.passel, g.hasMap, g.map, g.err, fault, scan.after)
     ELSE /\ scan' = [scan EXCEPT !.k = scan.k + 1, !.acc = g.acc]
          /\ UNCHANGED last

CallWriteState(p, s, fault) ==
  LET w == WriteState(table, p, s, fault) IN
  /\ MainIdle
  /\ table' = w.table
  /\ last' = [BlankOp EXCEPT !.op = "WriteState", !.possum = p, !.state = s,
                             !.err = w.err, !.fault = fault]
  /\ UNCHANGED <<run, scan, lastSetup>>

----------------------------------------------------------------------------
(* Specifications *)

SeqSetupBegin == \E env \in Envs, fault \in BOOLEAN : SetupBegin(Main, env, fault)

SeqSetupSelect == \E fault \in BOOLEAN : SetupSelect(Main, fault)

SeqSetupInsert == \E fault \in BOOLEAN : SetupInsert(Main, fault)

SeqSetupCrash == SetupCrash(Main)

DoGetPassel == \E env \in Envs : CallGetPassel(env)

DoGetState == \E p \in Names, fault \in BOOLEAN : CallGetState(p, fault)

DoPasselStateBegin == \E passel \in Passels : PasselStateBegin(passel)

DoPasselStateQuery == \E fault \in BOOLEAN : PasselStateQuery(fault)

DoWriteState == \E p \in Names, s \in StateArgs, fault \in BOOLEAN : CallWriteState(p, s, fault)

\* calls made one at a time: a single caller
Next ==
  \/ SeqSetupBegin
  \/ SeqSetupSelect
  \/ SeqSetupInsert
  \/ SeqSetupCrash
  \/ DoGetPassel
  \/ DoGetState
  \/ DoPasselStateBegin
  \/ DoPasselStateQuery
  \/ DoWriteState

Spec == Init /\ [][Next]_vars

ConcSetupBegin == \E r \in Runners, env \in Envs, fault \in BOOLEAN : SetupBegin(r, env, fault)

ConcSetupSelect == \E r \in Runners, fault \in BOOLEAN : SetupSelect(r, fault)

ConcSetupInsert == \E r \in Runners, fault \in BOOLEAN : SetupInsert(r, fault)

ConcSetupCrash == \E r \in Runners : SetupCrash(r)

\* SetupStateDB runs interleaved query by query
NextConc ==
  \/ ConcSetupBegin
  \/ ConcSetupSelect
  \/ ConcSetupInsert
  \/ ConcSetupCrash

SpecConc == Init /\ [][NextConc]_vars

\* WriteState of another caller, at any moment, also between two queries of a
\* call of Main
OtherWriteState(p, s, fault) ==
  /\ table' = WriteState(table, p, s, fault).table
  /\ UNCHANGED <<run, scan, last, lastSetup>>

DoOtherWriteState ==
  \E p \in Names, s \in StateArgs, fault \in BOOLEAN : OtherWriteState(p, s, fault)

\* GetPasselState of Main on a store shared with other callers: their
\* WriteState calls and SetupStateDB runs fall between its queries
NextShared ==
  \/ DoPasselStateBegin
  \/ DoPasselStateQuery
  \/ DoOtherWriteState
  \/ NextConc

SpecShared == Init /\ [][NextShared]_vars

----------------------------------------------------------------------------
(* Properties *)

Members(passel) == {passel[k] : k \in 1..Len(passel)}

IsPrefix(a, b) == Len(a) <= Len(b) /\ \A k \in 1..Len(a) : b[k] = a[k]

MainRunning == run[Main].pc # "idle"

\* C1: on an empty table, a successful SetupStateDB run over a non-empty
\* passel M followed by GetPasselState(M) (no store failure) returns a mapping
\* whose keys are exactly the members of M, each mapped to "alive".
C1_FreshSetupThenPasselState ==
  (/\ last.op = "GetPasselState" /\ last.after = "fresh"
   /\ Len(last.passel) > 0 /\ ~last.fault)
  => (/\ last.err = NoErr
      /\ last.hasMap
      /\ DOMAIN last.map = Members(last.passel)
      /\ \A m \in DOMAIN last.map : last.map[m] = "alive")

\* GetPasselState returned the mapping of a passel naming one member twice,
\* right after the empty table was set up for that passel
C1_Witness ==
  /\ last.op = "GetPasselState" /\ last.after = "fresh"
  /\ last.hasMap /\ last.err = NoErr
  /\ Len(last.passel) >= 2 /\ last.passel[1] = last.passel[2]
  /\ Len(table) = Cardinality(Members(last.passel))
  /\ \A m \in Members(last.passel) : last.map[m] = "alive"

\* C2: a SetupStateDB run over the passel of the preceding successful run
\* (WriteState calls in between) inserts nothing and changes no record.
C2_SecondRunIdempotent ==
  [][(MainRunning /\ After(run[Main].passel) = "ok") => table' = table]_vars

\* a second run returned success while one of its members is "dead"
C2_Witness ==
  /\ last.op = "SetupStateDB" /\ last.err = NoErr /\ last.after = "ok"
  /\ Len(last.passel) = 2 /\ last.passel[1] # last.passel[2]
  /\ \E k \in 1..Len(table) : table[k].state = "dead"

\* C3 as stated: WriteState(m, s) with s alive or dead, followed immediately
\* by GetState(m), returns s, for every m.
C3_RoundTripEveryMember ==
  [][(/\ last.op = "WriteState" /\ last.err = NoErr
      /\ last'.op = "GetState" /\ last'.possum = last.possum /\ ~last'.fault)
     => (last'.err = NoErr /\ last'.value = last.state)]_vars

\* C3 amended: WriteState(m, s) followed immediately by GetState(m) returns s
\* for every m that has a record in the table.
C3_RoundTripRecorded ==
  [][(/\ last.op = "WriteState" /\ last.err = NoErr
      /\ last'.op = "GetState" /\ last'.possum = last.possum /\ ~last'.fault
      /\ Count(table, last.possum) > 0)
     => (last'.err = NoErr /\ last'.value = last.state)]_vars

\* GetState returned "dead": the value a WriteState stored
C3_Witness ==
  /\ last.op = "GetState" /\ last.err = NoErr /\ last.value = "dead"
  /\ Count(table, last.possum) = 1

\* C4: every record's state is "alive" or "dead"; WriteState with any other
\* state fails with InvalidArgument whether or not the store is reachable and
\* leaves the table unchanged.
C4_OnlyAliveOrDead ==
  /\ [](\A k \in 1..Len(table) : table[k].state \in {"alive", "dead"})
  /\ [][\A p \in Names, s \in StateArgs \ {"alive", "dead"}, f \in BOOLEAN :
          CallWriteState(p, s, f)
          => (table' = table /\ last'.err = InvalidArgument)]_vars

\* WriteState refused "unknown" for a member that has a record
C4_Witness ==
  /\ last.op = "WriteState" /\ last.state = "unknown" /\ last.err = InvalidArgument
  /\ last.fault
  /\ Count(table, last.possum) = 1

\* C5: with calls made one at a time, no member has more than one record, and
\* every member of a passel has exactly one after a successful run over it.
C5_OneRecordPerMember ==
  /\ \A m \in Names : Count(table, m) <= 1
  /\ (lastSetup.outcome = "ok") => \A m \in Members(lastSetup.passel) : Count(table, m) = 1

\* a successful run over a passel naming one member twice, on a table that an
\* earlier run over another passel had filled
C5_Witness ==
  /\ last.op = "SetupStateDB" /\ last.err = NoErr
  /\ ~last.fresh /\ last.after = "none"
  /\ Len(last.passel) >= 2 /\ last.passel[1] = last.passel[2]
  /\ Len(table) = 2

\* C6: GetPasselState over a non-empty list with a member that has no record
\* returns no mapping, and a not-found error unless the store failed.
C6_AllOrNothing ==
  (/\ last.op = "GetPasselState" /\ Len(last.passel) > 0
   /\ \E m \in Members(last.passel) : Count(table, m) = 0)
  => (/\ ~last.hasMap
      /\ last.err \in {NotFound, StoreError}
      /\ ~last.fault => last.err = NotFound)

\* not-found although the first member of the list was found
C6_Witness ==
  /\ last.op = "GetPasselState" /\ last.err = NotFound /\ ~last.hasMap
  /\ Len(last.passel) = 2
  /\ Count(table, last.passel[1]) = 1 /\ Count(table, last.passel[2]) = 0

\* the "passel" credential is missing, not a sequence, or holds a non-string
Malformed(env) ==
  /\ env.up /\ env.service
  /\ \/ env.passel.type # "slice"
     \/ \E k \in 1..Len(env.passel.elems) : env.passel.elems[k].type # "string"

\* C7: for a malformed "passel" credential GetPassel returns a TypeMismatch
\* error, and SetupStateDB returns that error.
C7_MalformedIsTypeMismatch ==
  [][\A env \in Envs :
       Malformed(env)
       => /\ CallGetPassel(env) => last'.err = TypeMismatch
          /\ SetupBegin(Main, env, FALSE) => last'.err = TypeMismatch]_vars

\* C8: at any point of a run the members already processed have exactly one
\* record and no member has more; a run cut off by a crash or a store error
\* leaves it so; the re-run over the same passel keeps every existing record
\* as it is and, returning success, leaves every member with one record.
C8Inv ==
  /\ \A m \in Names : Count(table, m) <= 1
  /\ MainRunning
     => \A k \in 1..(run[Main].i - 1) : Count(table, run[Main].passel[k]) = 1
  /\ (last.op = "SetupStateDB" /\ last.err \in {Crashed, StoreError})
     => \A k \in 1..last.done : Count(table, last.passel[k]) = 1
  /\ (last.op = "SetupStateDB" /\ last.err = NoErr /\ last.after = "cut")
     => \A m \in Members(last.passel) : Count(table, m) = 1

C8_CutOffAndRerun ==
  /\ []C8Inv
  /\ [][(MainRunning /\ After(run[Main].passel) = "cut") => IsPrefix(table, table')]_vars

\* the re-run of a cut-off run returned success; the member the cut-off run
\* had processed was set to "dead" before the re-run
C8_Witness ==
  /\ last.op = "SetupStateDB" /\ last.err = NoErr /\ last.after = "cut"
  /\ Len(last.passel) = 2 /\ last.passel[1] # last.passel[2]
  /\ Len(table) = 2
  /\ table[1] = Row(last.passel[1], "dead")
  /\ table[2] = Row(last.passel[2], "alive")

\* C9: WriteState(m, s) with s alive or dead keeps the number of records and
\* the state of every record of another member; when m has no record it
\* returns success, changes nothing, and a following GetState(m) is not-found.
C9_WriteStateFrame ==
  /\ [][\A p \in Names, s \in {"alive", "dead"}, f \in BOOLEAN :
          CallWriteState(p, s, f)
          => /\ Len(table') = Len(table)
             /\ \A k \in 1..Len(table) :
                  /\ table'[k].possum = table[k].possum
                  /\ table[k].possum # p => table'[k].state = table[k].state
             /\ (Count(table, p) = 0 /\ ~f) => (last'.err = NoErr /\ table' = table)]_vars
  /\ [][(/\ last.op = "WriteState" /\ last.err = NoErr /\ ValidState(last.state)
         /\ Count(table, last.possum) = 0
         /\ last'.op = "GetState" /\ last'.possum = last.possum /\ ~last'.fault)
        => last'.err = NotFound]_vars

\* WriteState returned success for a member without a record while another
\* member has one
C9_Witness ==
  /\ last.op = "WriteState" /\ last.err = NoErr /\ last.state = "dead"
  /\ Count(table, last.possum) = 0
  /\ Len(table) = 1 /\ table[1].state = "alive"

\* C10 as stated: with SetupStateDB runs interleaved query by query, every
\* member has at most one record.
C10_ConcurrentUnique == \A m \in Names : Count(table, m) <= 1

\* C10 amended: with SetupStateDB runs interleaved query by query, every
\* member has at most one record per concurrent runner.
C10_OneRecordPerRunner == \A m \in Names : Count(table, m) <= Cardinality(Runners)

\* both runners inserted a row for the same member
C10_Witness == \E m \in Names : Count(table, m) = Cardinality(Runners)

====
